---------------------------- MODULE Spec2Model ----------------------------
(***************************************************************************)
(* A model of greprepos.py: the Collector (_get_github_data with its       *)
(* rate-limit guard), the per-repository fetch (_get_repo_data), the       *)
(* relationship classifier (_get_relationship_to_org_default), the file    *)
(* getters and the Reporter (_write_csv_file).                             *)
(*                                                                         *)
(* Text is a sequence of tokens (TLC cannot take a string apart), so that  *)
(* join, equality and substring containment are computed, not assumed.     *)
(* An Optional[str] is a record: None is distinct from the empty text.     *)
(***************************************************************************)
EXTENDS Integers, Sequences, FiniteSets, TLC

\* ------------------------------------------------------------------ bounds

\* Largest number of repositories the listing yields in one run, and of rows
\* handed to _write_csv_file on its own.
MaxRepos == 3

\* Longest text drawn token by token as a file's content.
MaxText == 2

\* ------------------------------------------------------- module constants

_BASE_URL == <<"https://github.com">>
_CODE_OF_CONDUCT == <<"CODE_OF_CONDUCT", ".md">>
_CONTRIBUTING == <<"CONTRIBUTING", ".md">>
_ORG_DEFAULT_REPO == <<".github">>
_RENOVATE_CONFIGURE_PR == "Configure Renovate"
_RENOVATE_USER == "renovate[bot]"
_TIME_DELTA == 10

\* ------------------------------------------------------------ value types

None == [present |-> FALSE, text |-> <<>>]
Some(t) == [present |-> TRUE, text |-> t]

\* The five members of the enum, by their .value.
LINKS_TO == "links to"
MATCHES == "matches"
MISSING == "missing"
NO_DEFAULT == "no organisation default"
UNRELATED == "unrelated"
RelationshipToOrgDefault == {LINKS_TO, MATCHES, MISSING, NO_DEFAULT, UNRELATED}

\* Exceptions, by class name; NoExc is a normal return.
NoExc == "none"
RateLimitExceededException == "RateLimitExceededException"
UnknownObjectException == "UnknownObjectException"
AssertionError == "AssertionError"
KeyError == "KeyError"
ValueError == "ValueError"

\* What a call gives back: a value, or the exception it raised.
Return(v) == [exc |-> NoExc, val |-> v]
Raise(e) == [exc |-> e, val |-> None]

\* ------------------------------------------------------------ str helpers

\* sep.join(parts), parts a sequence of texts.
RECURSIVE Join(_, _)
Join(parts, sep) ==
    IF parts = <<>> THEN <<>>
    ELSE IF Len(parts) = 1 THEN parts[1]
    ELSE parts[1] \o sep \o Join(Tail(parts), sep)

\* sub in s  (Python's substring test).
Contains(sub, s) ==
    \E i \in 0..(Len(s) - Len(sub)) : SubSeq(s, i + 1, i + Len(sub)) = sub


\* The first exception of a sequence of call outcomes made in order, or NoExc.
RECURSIVE FirstExc(_)
FirstExc(excs) ==
    IF excs = <<>> THEN NoExc
    ELSE IF Head(excs) # NoExc THEN Head(excs)
    ELSE FirstExc(Tail(excs))

\* ------------------------------------------------------ remote responses
\* What the remote service answers to one call.  A plain call answers "ok",
\* "notfound" (UnknownObjectException) or "ratelimit"
\* (RateLimitExceededException); get_contents answers a file with its text,
\* a directory, not found, or rate limit.

PlainExc(kind) ==
    CASE kind = "notfound" -> UnknownObjectException
      [] kind = "ratelimit" -> RateLimitExceededException
      [] OTHER -> NoExc

File(t) == [kind |-> "file", text |-> t]
NotFound == [kind |-> "notfound", text |-> <<>>]
Directory == [kind |-> "dir", text |-> <<>>]
RateLimited == [kind |-> "ratelimit", text |-> <<>>]

\* ---------------------------------------------------- _get_file_contents

\* A variant that gives the empty text, not None, for a file that is not found.
_get_file_contents_Empty(resp) ==
    CASE resp.kind = "ratelimit" -> Raise(RateLimitExceededException)
      [] resp.kind = "notfound" -> Return(Some(<<>>))
      [] resp.kind = "dir" -> Raise(AssertionError)
      [] OTHER -> Return(Some(resp.text))

_get_file_contents(resp) ==
    CASE resp.kind = "ratelimit" -> Raise(RateLimitExceededException)
      [] resp.kind = "notfound" -> Return(None)
      [] resp.kind = "dir" -> Raise(AssertionError)
      [] OTHER -> Return(Some(resp.text))

\* ------------------------------------------------------ _get_default_repo
\* Return(Some(..)) stands for the repository object, Return(None) for None.

_get_default_repo(resp) ==
    CASE resp = "ratelimit" -> Raise(RateLimitExceededException)
      [] resp = "notfound" -> Return(None)
      [] OTHER -> Return(Some(_ORG_DEFAULT_REPO))

\* ------------------------------------- _get_relationship_to_org_default

\* The URL the LINKS_TO test looks for.
LinkUrl(org_name, filename) ==
    Join(<<_BASE_URL, org_name, _ORG_DEFAULT_REPO, <<"blob">>, <<"main">>, filename>>, <<"/">>)

\* A variant of the chain with the link test ahead of the equality test.
Relationship_LinkFirst(default, repo_file, org_name, filename) ==
    IF ~default.present THEN NO_DEFAULT
    ELSE IF ~repo_file.present THEN MISSING
    ELSE IF Contains(LinkUrl(org_name, filename), repo_file.text) THEN LINKS_TO
    ELSE IF default.text = repo_file.text THEN MATCHES
    ELSE UNRELATED

\* The if/elif chain, on the default and the repository's file content.
Relationship(default, repo_file, org_name, filename) ==
    IF ~default.present THEN NO_DEFAULT
    ELSE IF ~repo_file.present THEN MISSING
    ELSE IF default.text = repo_file.text THEN MATCHES
    ELSE IF Contains(LinkUrl(org_name, filename), repo_file.text) THEN LINKS_TO
    ELSE UNRELATED

\* org_name is repo.organization.name (None when the organisation has no
\* name); resp is the answer to repo.get_contents(filename).
_get_relationship_to_org_default(default, filename, org_name, resp) ==
    IF ~org_name.present THEN Raise(AssertionError)
    ELSE LET repo_file == _get_file_contents(resp)
         IN IF repo_file.exc # NoExc THEN Raise(repo_file.exc)
            ELSE Return(Relationship(default, repo_file.val, org_name.text, filename))

\* --------------------------------------------------------- _get_repo_data

\* The declared header row of _write_csv_file, in its order.
headers ==
    << "name", "is archived", "is private", "is fork", "created at",
       "pushed at", "default branch", "commits on default branch",
       "last commit to default branch", "open issues", "open prs",
       "has master branch but no main", "has license file",
       "contributing relates to org default", "coc relates to org default",
       "missing why private", "has unmerged Configure Renovate PR",
       "has unmerged PR(s) from org bot", "uses Travis CI", "forks count",
       "teams", "topics" >>

\* A read-only snapshot attribute of a repository that the row passes on
\* unchanged (repo.fork, repo.created_at, ...): the value is named, not drawn.
Attr(repo, a) == <<repo.name, a>>

\* The loop over the open pull requests, with its break.
RECURSIVE ScanPulls(_, _, _, _)
ScanPulls(pulls, bot_user, has_configure_renovate_pr, has_automated_pr) ==
    IF pulls = <<>> THEN <<has_configure_renovate_pr, has_automated_pr>>
    ELSE LET pull == Head(pulls)
             c == has_configure_renovate_pr
                  \/ (pull.title = _RENOVATE_CONFIGURE_PR /\ pull.login = _RENOVATE_USER)
             a == has_automated_pr
                  \/ (bot_user.present /\ pull.login = bot_user.text)
         IN IF (c /\ a) \/ (c /\ ~bot_user.present) THEN <<c, a>>
            ELSE ScanPulls(Tail(pulls), bot_user, c, a)

\* A variant of the license lookup that lets not-found propagate.
GetLicense_Uncaught(resp) ==
    IF PlainExc(resp) # NoExc THEN Raise(PlainExc(resp)) ELSE Return(TRUE)

\* try: repo.get_license() ... except UnknownObjectException: the value of
\* "has license file", or the exception that is not caught.
GetLicense(resp) ==
    IF resp = "ratelimit" THEN Raise(RateLimitExceededException)
    ELSE IF resp = "notfound" THEN Return(FALSE)
    ELSE Return(TRUE)

\* teams = [] ; try: [team.name for team in repo.get_teams()] except
\* UnknownObjectException: pass
GetTeams(resp) ==
    IF resp.kind = "ratelimit" THEN Raise(RateLimitExceededException)
    ELSE IF resp.kind = "notfound" THEN Return(<<>>)
    ELSE Return(resp.names)

\* One invocation of _get_repo_data on the listing's snapshot `repo`, with
\* r the remote service's answers to the calls it makes, in call order:
\* the branch calls, get_license, get_contents of the two default-tracked
\* files, of WHY_PRIVATE.md (private repositories only) and of .travis.yml,
\* get_topics, get_teams, get_pulls.
_get_repo_data(repo, default_contrib, default_coc, bot_user, r) ==
    LET contrib == _get_relationship_to_org_default(default_contrib, _CONTRIBUTING, r.org_name, r.contributing)
        coc == _get_relationship_to_org_default(default_coc, _CODE_OF_CONDUCT, r.org_name, r.coc)
        why == IF repo.private THEN _get_file_contents(r.why_private) ELSE Return(None)
        travis == _get_file_contents(r.travis)
        license == GetLicense(r.license)
        teams == GetTeams(r.teams)
        flags == ScanPulls(r.pulls.prs, bot_user, FALSE, FALSE)
        exc == FirstExc(<< PlainExc(r.branch), license.exc, contrib.exc, coc.exc,
                           why.exc, travis.exc, PlainExc(r.topics.kind), teams.exc,
                           PlainExc(r.pulls.kind) >>)
        repo_info ==
            ("name" :> repo.name)
         @@ ("is archived" :> repo.archived)
         @@ ("is private" :> repo.private)
         @@ ("is fork" :> Attr(repo, "fork"))
         @@ ("created at" :> Attr(repo, "created_at"))
         @@ ("pushed at" :> Attr(repo, "pushed_at"))
         @@ ("default branch" :> Attr(repo, "default_branch"))
         @@ ("commits on default branch" :> Attr(repo, "commits"))
         @@ ("last commit to default branch" :> Attr(repo, "last_commit"))
         @@ ("has master branch but no main" :> Attr(repo, "master_no_main"))
         @@ ("has license file" :> license.val)
         @@ ("contributing relates to org default" :> contrib.val)
         @@ ("coc relates to org default" :> coc.val)
         @@ ("missing why private" :> (repo.private /\ ~why.val.present))
         @@ ("uses Travis CI" :> travis.val.present)
         @@ ("topics" :> Join(r.topics.names, <<", ">>))
         @@ ("teams" :> Join(teams.val, <<", ">>))
         @@ ("forks count" :> Attr(repo, "forks_count"))
         @@ ("open issues" :> Attr(repo, "open_issues_count"))
         @@ ("open prs" :> Len(r.pulls.prs))
         @@ ("has unmerged Configure Renovate PR" :> flags[1])
         @@ ("has unmerged PR(s) from org bot" :> flags[2])
    IN IF exc # NoExc THEN Raise(exc) ELSE Return(repo_info)

\* -------------------------------------------------------------- the dict
\* github_data is a Python dict: a sequence of <<key, value>> entries in
\* insertion order, keys unique.

Keys(d) == [i \in 1..Len(d) |-> d[i].name]
HasKey(d, k) == \E i \in 1..Len(d) : d[i].name = k
Lookup(d, k) == d[CHOOSE i \in 1..Len(d) : d[i].name = k].row

\* d[k] = v: replaces the value in place when k is there, appends otherwise.
SetItem(d, k, v) ==
    IF HasKey(d, k)
    THEN [i \in 1..Len(d) |-> IF d[i].name = k THEN [name |-> k, row |-> v] ELSE d[i]]
    ELSE Append(d, [name |-> k, row |-> v])

\* -------------------------------------------------------- _write_csv_file

Range(f) == {f[i] : i \in DOMAIN f}

NoFile == [exists |-> FALSE, lines |-> <<>>]

\* The rows written by the for loop before it ends or a row lacks a column
\* (repo[column] raises KeyError); what was written stays in the file.
RECURSIVE WriteRows(_, _)
WriteRows(rows, out) ==
    IF rows = <<>> THEN [exc |-> NoExc, lines |-> out]
    ELSE LET repo == Head(rows).row
         IN IF ~(Range(headers) \subseteq DOMAIN repo)
            THEN [exc |-> KeyError, lines |-> out]
            ELSE WriteRows(Tail(rows),
                           Append(out, [column \in 1..Len(headers) |-> repo[headers[column]]]))

\* The whole of _write_csv_file: the assertion on the first row's keys, then
\* open(csvfile, "wt"), the header row and the rows.  Gives the exception
\* raised (or NoExc) and the file as it is left.
_write_csv_file(github_data, csvfile) ==
    IF github_data # <<>> /\ DOMAIN github_data[1].row # Range(headers)
    THEN [exc |-> AssertionError, file |-> csvfile]
    ELSE LET w == WriteRows(github_data, <<headers>>)
         IN [exc |-> w.exc, file |-> [exists |-> TRUE, lines |-> w.lines]]

\* ------------------------------------------------------------------ state

VARIABLES
    pc,                \* position of the single thread of control
    exc,               \* the exception that ended the run, or NoExc
    default_contrib,   \* _get_github_data: Optional[str]
    default_coc,       \* _get_github_data: Optional[str]
    num_repos_in_org,  \* org_repos.totalCount
    iterated,          \* the repositories the for loop has taken from org_repos,
                       \* each with the number of _get_repo_data invocations made
                       \* for it and the CONTRIBUTING.md answer of the last one
    num_archived,      \* _get_github_data: num_archived
    data,              \* _get_github_data: data (a dict)
    waits,             \* time.sleep calls made for the current repository
    now,               \* the clock, in seconds
    reset_timestamp,   \* _get_github_data: reset_timestamp
    sleep_time,        \* _get_github_data: sleep_time
    last_fetch,        \* outcome of the latest _get_repo_data invocation
    repo_data,         \* __main__: repo_data, once _get_github_data has returned
    csv,               \* the output file
    arg,               \* function-level runs: the call and its inputs
    ret                \* function-level runs: what the call gave back

vars == << pc, exc, default_contrib, default_coc, num_repos_in_org, iterated,
           num_archived, data, waits, now, reset_timestamp, sleep_time,
           last_fetch, repo_data, csv, arg, ret >>

collector_vars == << default_contrib, default_coc, num_repos_in_org, iterated,
                     num_archived, data, waits, now, reset_timestamp,
                     sleep_time, last_fetch, repo_data, csv >>

NoArg == [fn |-> "none"]
NoRet == [set |-> FALSE]

\* ------------------------------------------------- inputs of a whole run

\* Names of the organisation's repositories, in the order the listing yields them.
RepoNames == [i \in 1..(MaxRepos + 1) |-> <<"repo", i>>]

OrgName == Some(<<"acme">>)
DefaultText == <<"be", "kind">>
OtherText == <<"be", "quick">>

\* The answers one _get_repo_data invocation gets when nothing is missing.
AllOk ==
    [org_name |-> OrgName, branch |-> "ok", license |-> "ok",
     contributing |-> File(DefaultText), coc |-> File(DefaultText),
     why_private |-> File(OtherText), travis |-> NotFound,
     topics |-> [kind |-> "ok", names |-> << <<"audit">> >>],
     teams |-> [kind |-> "ok", names |-> << <<"core">> >>],
     pulls |-> [kind |-> "ok", prs |-> <<>>]]

\* The answers drawn for a per-repository fetch within a whole run: the
\* CONTRIBUTING.md content varies, and the first remote call may be
\* rate-limited or answer not-found.
FlowResponses ==
    { [AllOk EXCEPT !.contributing = c, !.branch = b] :
        c \in {File(DefaultText), NotFound},
        b \in {"ok", "ratelimit", "notfound"} }

\* reset - now, for the reset time the rate-limit status reports.
ResetOffsets == {0 - 11, 0 - 10, 30}

\* options.bot_user (default None).
FlowBotUser == None

\* ------------------------------------------------------------ a whole run

Abort(e) == pc' = "aborted" /\ exc' = e

Init ==
    /\ pc = "start"
    /\ exc = NoExc
    /\ default_contrib = None
    /\ default_coc = None
    /\ num_repos_in_org = 0
    /\ iterated = <<>>
    /\ num_archived = 0
    /\ data = <<>>
    /\ waits = 0
    /\ now = 0
    /\ reset_timestamp = 0
    /\ sleep_time = 0
    /\ last_fetch = Return(None)
    /\ repo_data = [set |-> FALSE, val |-> <<>>]
    /\ csv = NoFile
    /\ arg = NoArg
    /\ ret = NoRet

\* api.get_organization(org_name)
GetOrganization ==
    /\ pc = "start"
    /\ \E resp \in {"ok", "notfound", "ratelimit"} :
         IF PlainExc(resp) # NoExc
         THEN Abort(PlainExc(resp))
         ELSE pc' = "defaults" /\ exc' = exc
    /\ UNCHANGED << collector_vars, arg, ret >>

\* default_repo, default_contrib and default_coc, from the answers to
\* org.get_repo(".github") and to the two get_contents calls.
DefaultFiles(resp, c1, c2) ==
    LET default_repo == _get_default_repo(resp)
        contrib == IF default_repo.val.present THEN _get_file_contents(c1) ELSE Return(None)
        coc == IF default_repo.val.present THEN _get_file_contents(c2) ELSE Return(None)
    IN [exc |-> FirstExc(<<default_repo.exc, contrib.exc, coc.exc>>),
        default_contrib |-> contrib.val,
        default_coc |-> coc.val]

GetDefaultFiles ==
    /\ pc = "defaults"
    /\ \E resp \in {"ok", "notfound", "ratelimit"},
          c1 \in {File(DefaultText), NotFound, Directory, RateLimited},
          c2 \in {File(DefaultText)} :
         LET d == DefaultFiles(resp, c1, c2)
         IN IF d.exc # NoExc
            THEN Abort(d.exc) /\ UNCHANGED <<default_contrib, default_coc>>
            ELSE /\ pc' = "repos"
                 /\ exc' = exc
                 /\ default_contrib' = d.default_contrib
                 /\ default_coc' = d.default_coc
    /\ UNCHANGED << num_repos_in_org, iterated, num_archived, data, waits, now,
                    reset_timestamp, sleep_time, last_fetch, repo_data, csv, arg, ret >>

\* org_repos = org.get_repos(); num_repos_in_org = org_repos.totalCount
GetRepos ==
    /\ pc = "repos"
    /\ \/ Abort(RateLimitExceededException) /\ UNCHANGED num_repos_in_org
       \/ \E t \in 0..(MaxRepos + 1) :
            num_repos_in_org' = t /\ pc' = "loop" /\ exc' = exc
    /\ UNCHANGED << default_contrib, default_coc, iterated, num_archived, data,
                    waits, now, reset_timestamp, sleep_time, last_fetch,
                    repo_data, csv, arg, ret >>

Current == iterated[Len(iterated)]

\* A variant that puts the new row ahead of the rows already there.
Store_Prepend(d, name, row) == <<[name |-> name, row |-> row]>> \o d

\* data[repo.name] = <the row an invocation returned>
Store(d, name, row) == SetItem(d, name, row)

\* One pass of the for loop up to the first fetch's outcome: the listing
\* yields the next repository (or fetching its page is rate-limited), an
\* archived one is skipped, otherwise _get_repo_data is invoked.
ProcessRepo ==
    /\ pc = "loop"
    /\ Len(iterated) < MaxRepos
    /\ \/ /\ Abort(RateLimitExceededException)
          /\ UNCHANGED << iterated, num_archived, data, waits, last_fetch >>
       \/ LET repo == [name |-> RepoNames[Len(iterated) + 1],
                       archived |-> TRUE, private |-> FALSE]
          IN /\ iterated' = Append(iterated, [repo |-> repo, tries |-> 0,
                                              contributing |-> NotFound])
             /\ num_archived' = num_archived + 1
             /\ UNCHANGED << pc, exc, data, waits, last_fetch >>
       \/ \E r \in FlowResponses :
            LET repo == [name |-> RepoNames[Len(iterated) + 1],
                         archived |-> FALSE, private |-> FALSE]
                res == _get_repo_data(repo, default_contrib, default_coc, FlowBotUser, r)
            IN /\ iterated' = Append(iterated, [repo |-> repo, tries |-> 1,
                                                contributing |-> r.contributing])
               /\ last_fetch' = res
               /\ waits' = 0
               /\ UNCHANGED num_archived
               /\ IF res.exc = NoExc
                  THEN data' = Store(data, repo.name, res.val) /\ UNCHANGED <<pc, exc>>
                  ELSE IF res.exc = RateLimitExceededException
                  THEN pc' = "except" /\ UNCHANGED <<exc, data>>
                  ELSE Abort(res.exc) /\ UNCHANGED data
    /\ UNCHANGED << default_contrib, default_coc, num_repos_in_org, now,
                    reset_timestamp, sleep_time, repo_data, csv, arg, ret >>

\* The except clause up to time.sleep: the rate-limit status is read (which
\* may itself be rate-limited), sleep_time is computed from the reported
\* reset and the clock, and time.sleep is entered; time.sleep raises
\* ValueError for a negative length.
HandleRateLimit ==
    /\ pc = "except"
    /\ \/ Abort(RateLimitExceededException)
          /\ UNCHANGED << reset_timestamp, sleep_time, waits >>
       \/ \E off \in ResetOffsets :
            LET reset == now + off
                st == reset - now + _TIME_DELTA
            IN /\ reset_timestamp' = reset
               /\ sleep_time' = st
               /\ IF st < 0
                  THEN Abort(ValueError) /\ UNCHANGED waits
                  ELSE pc' = "sleep" /\ waits' = waits + 1 /\ exc' = exc
    /\ UNCHANGED << default_contrib, default_coc, num_repos_in_org, iterated,
                    num_archived, data, now, last_fetch, repo_data, csv, arg, ret >>

\* A variant of the retry's outcome that drops the retry's row.
RetryOutcome_NoStore(res, repo) ==
    IF res.exc = NoExc
    THEN pc' = "loop" /\ UNCHANGED <<exc, data>>
    ELSE Abort(res.exc) /\ UNCHANGED data

\* A variant of the retry's outcome that handles a second rate limit like
\* the first one: back to the except clause.
RetryOutcome_Loop(res, repo) ==
    IF res.exc = NoExc
    THEN data' = Store(data, repo.name, res.val) /\ pc' = "loop" /\ exc' = exc
    ELSE IF res.exc = RateLimitExceededException
    THEN pc' = "except" /\ UNCHANGED <<exc, data>>
    ELSE Abort(res.exc) /\ UNCHANGED data

\* What follows the second invocation: its row is stored and the loop
\* continues; the call is outside any try, so whatever it raises propagates.
RetryOutcome(res, repo) ==
    IF res.exc = NoExc
    THEN data' = Store(data, repo.name, res.val) /\ pc' = "loop" /\ exc' = exc
    ELSE Abort(res.exc) /\ UNCHANGED data

\* time.sleep returns after sleep_time seconds and the fetch is invoked a
\* second time.
Retry ==
    /\ pc = "sleep"
    /\ now' = now + sleep_time
    /\ \E r \in FlowResponses :
         LET repo == Current.repo
             res == _get_repo_data(repo, default_contrib, default_coc, FlowBotUser, r)
         IN /\ iterated' = [iterated EXCEPT ![Len(iterated)] =
                               [@ EXCEPT !.tries = @ + 1, !.contributing = r.contributing]]
            /\ last_fetch' = res
            /\ RetryOutcome(res, repo)
    /\ UNCHANGED << default_contrib, default_coc, num_repos_in_org, num_archived,
                    waits, reset_timestamp, sleep_time, repo_data, csv, arg, ret >>

\* The listing is exhausted: the for loop ends.
EndOfListing ==
    /\ pc = "loop"
    /\ pc' = "assert"
    /\ UNCHANGED << exc, collector_vars, arg, ret >>

\* A variant that returns data without the assertion.
AssertTotal_Unchecked ==
    /\ pc = "assert"
    /\ repo_data' = [set |-> TRUE, val |-> data]
    /\ pc' = "write"
    /\ UNCHANGED << exc, default_contrib, default_coc, num_repos_in_org, iterated,
                    num_archived, data, waits, now, reset_timestamp, sleep_time,
                    last_fetch, csv, arg, ret >>

\* total_repos_seen, the assertion against org_repos.totalCount, return data
AssertTotal ==
    /\ pc = "assert"
    /\ LET total_repos_seen == num_archived + Len(Keys(data))
       IN IF total_repos_seen = num_repos_in_org
          THEN /\ repo_data' = [set |-> TRUE, val |-> data]
               /\ pc' = "write"
               /\ exc' = exc
          ELSE Abort(AssertionError) /\ UNCHANGED repo_data
    /\ UNCHANGED << default_contrib, default_coc, num_repos_in_org, iterated,
                    num_archived, data, waits, now, reset_timestamp, sleep_time,
                    last_fetch, csv, arg, ret >>

\* _write_csv_file(repo_data, options.csvfile)
WriteCsv ==
    /\ pc = "write"
    /\ LET w == _write_csv_file(repo_data.val, csv)
       IN /\ csv' = w.file
          /\ IF w.exc = NoExc THEN pc' = "done" /\ exc' = exc ELSE Abort(w.exc)
    /\ UNCHANGED << default_contrib, default_coc, num_repos_in_org, iterated,
                    num_archived, data, waits, now, reset_timestamp, sleep_time,
                    last_fetch, repo_data, arg, ret >>

Next ==
    \/ GetOrganization
    \/ GetDefaultFiles
    \/ GetRepos
    \/ ProcessRepo
    \/ HandleRateLimit
    \/ Retry
    \/ EndOfListing
    \/ AssertTotal
    \/ WriteCsv

Spec == Init /\ [][Next]_vars

\* --------------------------------------------- the functions on their own
\* Each function is also run alone, on inputs drawn from bounded sets.

\* All texts over a two-token alphabet up to MaxText tokens.
RECURSIVE ShortTexts(_)
ShortTexts(n) ==
    IF n = 0 THEN {<<>>}
    ELSE LET shorter == ShortTexts(n - 1)
         IN shorter \cup {Append(t, c) : t \in shorter, c \in {"x", "/"}}

OrgNames == {<<"acme">>, <<"other">>}
Filenames == {_CONTRIBUTING, _CODE_OF_CONDUCT}

\* Texts built around the link to a default file: the link alone, inside a
\* sentence, followed by more, and cut short.
LinkTexts ==
    UNION { LET url == LinkUrl(o, f)
            IN { url,
                 <<"see", " ">> \o url,
                 url \o <<".bak">>,
                 <<"x">> \o url \o <<"x">>,
                 SubSeq(url, 1, Len(url) - 1),
                 Tail(url) }
            : o \in OrgNames, f \in Filenames }

Texts == ShortTexts(MaxText) \cup LinkTexts

OptTexts == {None} \cup {Some(t) : t \in Texts}

RelationshipInputs ==
    [fn : {"relationship"},
     default : OptTexts,
     filename : Filenames,
     org_name : {None} \cup {Some(o) : o \in OrgNames},
     resp : {File(t) : t \in Texts} \cup {NotFound, Directory, RateLimited}]

FileInputs ==
    [fn : {"file"},
     resp : {File(t) : t \in ShortTexts(MaxText)} \cup {NotFound, Directory, RateLimited}]

DefaultFilesInputs ==
    [fn : {"defaults"},
     resp : {"ok", "notfound", "ratelimit"},
     c1 : {File(t) : t \in ShortTexts(MaxText)} \cup {NotFound, Directory, RateLimited},
     c2 : {File(DefaultText), NotFound}]

RenovatePull == [title |-> _RENOVATE_CONFIGURE_PR, login |-> _RENOVATE_USER]
BotPull == [title |-> "Bump", login |-> "org-bot"]

\* Every answer a per-repository fetch can get, call by call.
AllResponses ==
    [org_name : {OrgName, None},
     branch : {"ok", "notfound", "ratelimit"},
     license : {"ok", "notfound", "ratelimit"},
     contributing : {File(DefaultText), NotFound, Directory, RateLimited},
     coc : {File(OtherText), NotFound},
     why_private : {File(OtherText), NotFound},
     travis : {File(OtherText), NotFound},
     topics : {[kind |-> "ok", names |-> << <<"audit">>, <<"python">> >>],
               [kind |-> "ratelimit", names |-> <<>>]},
     teams : {[kind |-> "ok", names |-> << <<"core">>, <<"ops">> >>],
              [kind |-> "notfound", names |-> <<>>],
              [kind |-> "ratelimit", names |-> <<>>]},
     pulls : {[kind |-> "ok", prs |-> <<>>],
              [kind |-> "ok", prs |-> <<BotPull, RenovatePull, BotPull>>],
              [kind |-> "ratelimit", prs |-> <<>>]}]

RepoInputs ==
    { a \in [fn : {"repo"},
             repo : [name : {RepoNames[1]}, archived : {FALSE}, private : BOOLEAN],
             default : {None, Some(DefaultText)},
             bot_user : {None, Some("org-bot")},
             r : AllResponses] :
        /\ (a.r.pulls.prs = <<>> => a.bot_user = None)
        /\ (~a.repo.private => a.r.why_private = NotFound) }

\* A well-formed row, one lacking a column and one with a column too many.
FullRow(i) ==
    _get_repo_data([name |-> RepoNames[i], archived |-> FALSE, private |-> FALSE],
                   None, None, None, AllOk).val
RowShapes(i) ==
    { FullRow(i),
      [k \in DOMAIN FullRow(i) \ {"teams"} |-> FullRow(i)[k]],
      FullRow(i) @@ ("stars" :> 0) }

RECURSIVE Dicts(_)
Dicts(n) ==
    IF n = 0 THEN {<<>>}
    ELSE LET shorter == Dicts(n - 1)
         IN shorter \cup { Append(d, [name |-> RepoNames[n], row |-> row]) :
                             d \in {x \in shorter : Len(x) = n - 1}, row \in RowShapes(n) }

OldFile == [exists |-> TRUE, lines |-> << <<"name">> >>]

WriteInputs == [fn : {"write"}, github_data : Dicts(MaxRepos), csvfile : {NoFile, OldFile}]

InitFn ==
    /\ pc = "call"
    /\ exc = NoExc
    /\ default_contrib = None
    /\ default_coc = None
    /\ num_repos_in_org = 0
    /\ iterated = <<>>
    /\ num_archived = 0
    /\ data = <<>>
    /\ waits = 0
    /\ now = 0
    /\ reset_timestamp = 0
    /\ sleep_time = 0
    /\ last_fetch = Return(None)
    /\ repo_data = [set |-> FALSE, val |-> <<>>]
    /\ csv = NoFile
    /\ arg \in RelationshipInputs \cup FileInputs \cup DefaultFilesInputs
                 \cup RepoInputs \cup WriteInputs
    /\ ret = NoRet

Returned(out) ==
    /\ pc' = "returned"
    /\ ret' = [set |-> TRUE, out |-> out]
    /\ UNCHANGED << exc, collector_vars, arg >>

CallRelationship ==
    /\ pc = "call" /\ arg.fn = "relationship"
    /\ Returned(_get_relationship_to_org_default(arg.default, arg.filename, arg.org_name, arg.resp))

CallFileContents ==
    /\ pc = "call" /\ arg.fn = "file"
    /\ Returned(_get_file_contents(arg.resp))

CallDefaultFiles ==
    /\ pc = "call" /\ arg.fn = "defaults"
    /\ Returned(DefaultFiles(arg.resp, arg.c1, arg.c2))

CallRepoData ==
    /\ pc = "call" /\ arg.fn = "repo"
    /\ Returned(_get_repo_data(arg.repo, arg.default, arg.default, arg.bot_user, arg.r))

CallWriteCsv ==
    /\ pc = "call" /\ arg.fn = "write"
    /\ Returned(_write_csv_file(arg.github_data, arg.csvfile))

NextFn ==
    \/ CallRelationship
    \/ CallFileContents
    \/ CallDefaultFiles
    \/ CallRepoData
    \/ CallWriteCsv

SpecFn == InitFn /\ [][NextFn]_vars

\* ================================================================ claims

\* The link the classifier looks for, written out token by token.
ExpectedLink(org, filename) ==
    <<"https://github.com", "/">> \o org \o <<"/", ".github", "/", "blob", "/", "main", "/">> \o filename

\* s holds sub as a contiguous run of tokens.
HasRun(s, sub) ==
    \E i, j \in 0..Len(s) : SubSeq(s, i + 1, j) = sub

\* C1: for every default content D (absent or a text, the empty one
\* included) and every repository file content R (absent or a text), the
\* classifier returns NO_DEFAULT if D is absent; else MISSING if R is absent;
\* else MATCHES if D equals R; else LINKS_TO if R contains
\* <base-url>/<org>/.github/blob/main/<filename>; else UNRELATED.
C1_ClassifierPriority ==
    (ret.set /\ arg.fn = "relationship" /\ arg.org_name.present
        /\ arg.resp.kind \in {"file", "notfound"})
    => LET D == arg.default
           present == arg.resp.kind = "file"
           R == arg.resp.text
           link == HasRun(R, ExpectedLink(arg.org_name.text, arg.filename))
       IN /\ ret.out.exc = NoExc
          /\ ret.out.val \in RelationshipToOrgDefault
          /\ ret.out.val = NO_DEFAULT <=> ~D.present
          /\ ret.out.val = MISSING <=> (D.present /\ ~present)
          /\ ret.out.val = MATCHES <=> (D.present /\ present /\ D.text = R)
          /\ ret.out.val = LINKS_TO <=> (D.present /\ present /\ D.text # R /\ link)
          /\ ret.out.val = UNRELATED <=> (D.present /\ present /\ D.text # R /\ ~link)

\* C1 witness: the default and the repository file are the same text, which
\* itself holds the link; the classifier has answered MATCHES.
C1_Witness ==
    /\ ret.set /\ arg.fn = "relationship" /\ arg.org_name.present
    /\ arg.resp.kind = "file" /\ arg.default.present
    /\ arg.default.text = arg.resp.text
    /\ HasRun(arg.resp.text, ExpectedLink(arg.org_name.text, arg.filename))
    /\ Len(arg.resp.text) > Len(ExpectedLink(arg.org_name.text, arg.filename))
    /\ ret.out.exc = NoExc /\ ret.out.val = MATCHES

\* The answers of one _get_repo_data invocation that are rate-limit signals.
SomeRateLimit(a) ==
    "ratelimit" \in {a.r.branch, a.r.license, a.r.contributing.kind, a.r.coc.kind,
                     a.r.travis.kind, a.r.topics.kind, a.r.teams.kind, a.r.pulls.kind}
                    \cup (IF a.repo.private THEN {a.r.why_private.kind} ELSE {})

\* The invocation meets a failure other than the not-found conditions of C8:
\* a rate limit, a directory where a file is expected, an organisation
\* without a name, or a default branch that cannot be read.
OtherFailure(a) ==
    \/ SomeRateLimit(a)
    \/ ~a.r.org_name.present
    \/ a.r.branch # "ok"
    \/ "dir" \in {a.r.contributing.kind, a.r.coc.kind, a.r.travis.kind}
    \/ (a.repo.private /\ a.r.why_private.kind = "dir")

\* C8: not-found conditions never abort the run and never take the
\* rate-limit path: a not-found license lookup gives "has license file" =
\* False, a not-found team list gives an empty "teams", a missing defaults
\* repository or a missing file gives absent content (None, distinct from
\* the empty text); the row is still produced with all its columns.
C8_NotFoundRecovered ==
    /\ (ret.set /\ arg.fn = "repo")
       => LET r == arg.r
              out == ret.out
          IN /\ ~SomeRateLimit(arg) => out.exc # RateLimitExceededException
             /\ ~OtherFailure(arg)
                => /\ out.exc = NoExc
                   /\ DOMAIN out.val = Range(headers)
                   /\ out.val["name"] = arg.repo.name
                   /\ out.val["has license file"] = (r.license = "ok")
                   /\ (r.teams.kind = "notfound") <=> (out.val["teams"] = <<>>)
                   /\ out.val["uses Travis CI"] = (r.travis.kind = "file")
                   /\ out.val["missing why private"]
                        = (arg.repo.private /\ r.why_private.kind = "notfound")
                   /\ (arg.default.present /\ r.contributing.kind = "notfound")
                        => out.val["contributing relates to org default"] = MISSING
                   /\ (arg.default.present /\ r.coc.kind = "notfound")
                        => out.val["coc relates to org default"] = MISSING
                   /\ ~arg.default.present
                        => out.val["contributing relates to org default"] = NO_DEFAULT
    /\ (ret.set /\ arg.fn = "file")
       => /\ arg.resp.kind = "notfound" => (ret.out.exc = NoExc /\ ~ret.out.val.present)
          /\ arg.resp.kind = "file"
                => (ret.out.exc = NoExc /\ ret.out.val.present /\ ret.out.val.text = arg.resp.text)
    /\ (ret.set /\ arg.fn = "defaults")
       => /\ arg.resp = "notfound"
                => /\ ret.out.exc = NoExc
                   /\ ~ret.out.default_contrib.present
                   /\ ~ret.out.default_coc.present
          /\ (arg.resp = "ok" /\ arg.c1.kind = "notfound")
                => (ret.out.exc = NoExc /\ ~ret.out.default_contrib.present
                    /\ ret.out.default_coc.present = (arg.c2.kind = "file"))
          /\ (arg.resp = "ok" /\ arg.c1.kind = "file" /\ arg.c2.kind = "notfound")
                => (ret.out.exc = NoExc /\ ret.out.default_contrib.present
                    /\ ret.out.default_contrib.text = arg.c1.text
                    /\ ~ret.out.default_coc.present)

\* C8 witness: a private repository whose license, team list, CONTRIBUTING.md,
\* WHY_PRIVATE.md and .travis.yml are all not found; the row has been produced.
C8_Witness ==
    /\ ret.set /\ arg.fn = "repo"
    /\ arg.repo.private /\ arg.default.present
    /\ arg.r.license = "notfound" /\ arg.r.teams.kind = "notfound"
    /\ arg.r.contributing.kind = "notfound" /\ arg.r.why_private.kind = "notfound"
    /\ arg.r.travis.kind = "notfound"
    /\ ret.out.exc = NoExc
    /\ ret.out.val["has license file"] = FALSE
    /\ ret.out.val["teams"] = <<>>
    /\ ret.out.val["open prs"] = 3

\* C5: before writing any output the Reporter verifies every row's key set
\* against the declared headers; if any row, not only the first, has a
\* missing or an extra key, the run aborts before the output file is created
\* or written.
C5_EveryRowVerified ==
    (ret.set /\ arg.fn = "write"
        /\ \E i \in 1..Len(arg.github_data) :
              DOMAIN arg.github_data[i].row # Range(headers))
    => (ret.out.exc # NoExc /\ ret.out.file = arg.csvfile)

\* ------------------------------------------------- claims on a whole run

CurrentName == Current.repo.name

\* The retry of the current repository has been made and was rate-limited.
RetryRateLimited ==
    /\ iterated # <<>>
    /\ Current.tries = 2
    /\ last_fetch.exc = RateLimitExceededException

\* C2: when a repository's first fetch raises rate-limit and the second
\* succeeds, the fetch is invoked exactly twice, with one wait between and
\* no second look at the limit, and the retry's record is the repository's
\* row; when the first fetch succeeds it is invoked once and nothing waits.
C2_FetchOnceOrTwice ==
    /\ [](\A i \in 1..Len(iterated) :
            /\ iterated[i].tries \in 0..2
            /\ iterated[i].repo.archived <=> iterated[i].tries = 0)
    /\ []((pc = "loop" /\ iterated # <<>> /\ ~Current.repo.archived)
            => /\ last_fetch.exc = NoExc
               /\ waits = Current.tries - 1
               /\ HasKey(data, CurrentName)
               /\ Lookup(data, CurrentName) = last_fetch.val
               /\ (default_contrib.present /\ Current.contributing.kind = "notfound")
                    => Lookup(data, CurrentName)["contributing relates to org default"] = MISSING
               /\ (default_contrib.present /\ Current.contributing = File(default_contrib.text))
                    => Lookup(data, CurrentName)["contributing relates to org default"] = MATCHES)
    /\ [](pc = "except" => (Current.tries = 1 /\ waits = 0 /\ ~HasKey(data, CurrentName)))
    /\ [](pc = "sleep" => (Current.tries = 1 /\ waits = 1 /\ ~HasKey(data, CurrentName)))
    /\ [][\A i \in 1..Len(iterated) :
            (i < Len(iterated) \/ pc \notin {"except", "sleep"})
                => (Len(iterated') >= i /\ iterated'[i] = iterated[i])]_vars

\* C2 witness: the first fetch was rate-limited, the retry differed from it
\* in what it read and succeeded; its row is in data.
C2_Witness ==
    /\ pc = "loop" /\ iterated # <<>>
    /\ Current.tries = 2 /\ waits = 1
    /\ last_fetch.exc = NoExc
    /\ HasKey(data, CurrentName)
    /\ Lookup(data, CurrentName)["contributing relates to org default"] = MATCHES

\* C3: if the single retry of a repository's fetch also fails with
\* rate-limit, the error propagates: no third attempt and no second wait for
\* that repository, no row for it, no later repository processed, and the
\* output file never written.
C3_SecondRateLimitFatal ==
    /\ [](RetryRateLimited
            => /\ pc = "aborted"
               /\ exc = RateLimitExceededException
               /\ waits = 1
               /\ ~HasKey(data, CurrentName)
               /\ ~repo_data.set
               /\ csv = NoFile)
    /\ [][RetryRateLimited => UNCHANGED vars]_vars

\* C3 witness: the retry of the second repository was rate-limited after a
\* first repository's row had been stored; the run has ended.
C3_Witness ==
    /\ RetryRateLimited
    /\ pc = "aborted"
    /\ Len(iterated) >= 2
    /\ Len(data) >= 1

\* C4: whenever _get_github_data returns, rows plus skipped archived
\* repositories equal the listing's reported total; whenever the total
\* differs from that sum, the run aborts on the assertion and nothing is
\* returned or written.
C4_CountAssertion ==
    /\ [](repo_data.set
            => /\ Len(repo_data.val) + num_archived = num_repos_in_org
               /\ repo_data.val = data)
    /\ []((pc \in {"write", "done"}) => repo_data.set)
    /\ [][(pc = "assert" /\ Len(data) + num_archived # num_repos_in_org)
            => /\ pc' = "aborted"
               /\ exc' = AssertionError
               /\ ~repo_data'.set
               /\ csv' = NoFile]_vars
    /\ [][(pc = "assert" /\ Len(data) + num_archived = num_repos_in_org)
            => (pc' = "write" /\ repo_data'.set)]_vars
    /\ [][pc = "aborted" => UNCHANGED vars]_vars

\* C4 witness: the listing reported more repositories than the loop was
\* given; rows had been collected and the run ended on the assertion with
\* nothing returned or written.
C4_Witness ==
    /\ pc = "aborted" /\ exc = AssertionError
    /\ Len(data) >= 1 /\ num_archived >= 1
    /\ Len(iterated) < num_repos_in_org
    /\ ~repo_data.set /\ csv = NoFile

\* C6: a rate-limit signal raised by any remote call made during collection
\* is recovered by one wait-and-retry: the run never ends on a rate limit at
\* its first occurrence, only when a retry has been rate-limited too.
C6_EveryRemoteCallGuarded ==
    (pc = "aborted" /\ exc = RateLimitExceededException) => RetryRateLimited

\* The names of the non-archived repositories, in iteration order.
RECURSIVE NonArchivedNames(_)
NonArchivedNames(its) ==
    IF its = <<>> THEN <<>>
    ELSE (IF Head(its).repo.archived THEN <<>> ELSE <<Head(its).repo.name>>)
         \o NonArchivedNames(Tail(its))

\* C7: after a run that completes, the rows are exactly the non-archived
\* repositories of the listing, one row each (also after a retry), none for
\* an archived one, in the listing's order; a stored row is never modified
\* or removed by later processing.
C7_RowsAreNonArchived ==
    /\ []((pc \in {"write", "done"})
            => /\ Keys(data) = NonArchivedNames(iterated)
               /\ \A i \in 1..Len(data) :
                    /\ data[i].row["name"] = data[i].name
                    /\ data[i].row["is archived"] = FALSE)
    /\ [](pc = "done"
            => /\ csv.exists
               /\ Len(csv.lines) = Len(data) + 1
               /\ csv.lines[1] = headers
               /\ \A i \in 1..Len(data) : \A c \in 1..Len(headers) :
                    csv.lines[i + 1][c] = data[i].row[headers[c]])
    /\ [][\A i \in 1..Len(data) : Len(data') >= i /\ data'[i] = data[i]]_vars

\* C7 witness: a completed run over an archived repository, a repository
\* fetched at once and a repository fetched on the retry.
C7_Witness ==
    /\ pc = "done"
    /\ Len(data) >= 2
    /\ \E i, j, k \in 1..Len(iterated) :
         /\ iterated[i].repo.archived
         /\ iterated[j].tries = 1
         /\ iterated[k].tries = 2
         /\ j < k

\* C9: for every reset time the service reports and every current time,
\* the guard blocks for reset_time - now + 10 seconds and only then issues
\* the retry, so the retry is always issued, no earlier than reset_time + 10.
C9_RetryAlwaysIssued ==
    /\ [][(pc = "except" /\ exc' # RateLimitExceededException)
            => /\ pc' = "sleep"
               /\ sleep_time' = reset_timestamp' - now + _TIME_DELTA]_vars
    /\ [][pc = "sleep"
            => /\ Current'.tries = 2
               /\ now' = now + sleep_time
               /\ now' >= reset_timestamp + _TIME_DELTA]_vars

\* The end-to-end scenario: three repositories, i archived, j with a
\* CONTRIBUTING.md identical to the organisation default, k without one.
Scenario(i, j, k) ==
    /\ Len(iterated) = 3
    /\ {i, j, k} = {1, 2, 3}
    /\ iterated[i].repo.archived
    /\ ~iterated[j].repo.archived
    /\ ~iterated[k].repo.archived
    /\ default_contrib.present
    /\ iterated[j].contributing = File(default_contrib.text)
    /\ iterated[k].contributing.kind = "notfound"

Contributing(name) == Lookup(data, name)["contributing relates to org default"]

\* C10 as amended: in the scenario a run gives exactly 2 rows, classified
\* MATCHES and MISSING; and in any run NO_DEFAULT is the classification of
\* every row or of none.
C10_EndToEnd ==
    /\ pc = "done"
       => \A i, j, k \in 1..3 :
            Scenario(i, j, k)
            => /\ Len(data) = 2
               /\ Len(csv.lines) = 3
               /\ Contributing(iterated[j].repo.name) = MATCHES
               /\ Contributing(iterated[k].repo.name) = MISSING
    /\ \A m, n \in 1..Len(data) :
         data[m].row["contributing relates to org default"] = NO_DEFAULT
         => data[n].row["contributing relates to org default"] = NO_DEFAULT

\* C10 witness: a completed run of the scenario.
C10_Witness ==
    /\ pc = "done"
    /\ \E i, j, k \in 1..3 : Scenario(i, j, k)

\* C10 as stated: in the scenario a run gives exactly 2 rows, classified
\* MATCHES and NO_DEFAULT.
C10_Original ==
    pc = "done"
    => \A i, j, k \in 1..3 :
         Scenario(i, j, k)
         => /\ Len(data) = 2
            /\ Len(csv.lines) = 3
            /\ Contributing(iterated[j].repo.name) = MATCHES
            /\ Contributing(iterated[k].repo.name) = NO_DEFAULT
============================================================================
